---- MODULE Spec2Model ----
(***************************************************************************)
(* Presence bot (src/main.py): a SQLite store with two tables              *)
(* (daily_stats, counters), two admin commands (start, stats), a           *)
(* chat-member listener and one daily job.                                 *)
(*                                                                         *)
(* Spec      : the running bot (main, the handlers, the scheduler, the     *)
(*             clock, process restarts).                                   *)
(* SpecStore : the storage functions of src/main.py lines 37-74 called     *)
(*             directly with arguments drawn from bounded sets.            *)
(* SpecListener : main and on_chat_member alone, every notification        *)
(*             recorded in full.                                           *)
(* SpecConc  : one stats call, the daily job and the listener interleaved  *)
(*             between store statements.                                   *)
(***************************************************************************)
EXTENDS Integers, Sequences, FiniteSets, TLC

VARIABLES
    env,          \* the environment read at import: TELEGRAM_BOT_TOKEN, ADMIN_ID, CHANNEL_ID
    phase,        \* "down" | "running" | "refused" (SystemExit in main)
    schema,       \* tables that exist in the SQLite file
    daily_stats,  \* rows <<date, member_count>> of table daily_stats
    counters,     \* rows <<key, value>> of table counters
    today,        \* the local calendar day (day of the year) the clock shows
    hourPassed,   \* REPORT_HOUR of `today` is over
    last,         \* what the last operation did: its locals and its outputs
    seen,         \* history: <<join transitions, leave transitions>> handled so far
    tasks         \* SpecConc: where the stats call and the daily job stand

vars == <<env, phase, schema, daily_stats, counters, today, hourPassed, last,
          seen, tasks>>

\* ------------------------------------------------------------------ bounds
MaxDay == 3        \* calendar days the clock goes through
MaxCounter == 1    \* notifications counted per counter before the model stops counting
MaxNotified == 2   \* the same, where the listener runs alone (SpecListener)

Days == {8 + i : i \in 1..MaxDay}      \* January 9th, 10th, 11th, ...
Counts == {480, 500}                   \* member counts the platform reports
Statuses == {"left", "kicked", "member", "administrator", "restricted"}
AdminUser == <<1>>
Callers == {<<>>, <<1>>, <<2>>}        \* update.effective_user: None, or a user id
MonChat == <<-1>>
Chats == {-1, -2}                      \* chats that deliver chat_member updates
\* update.chat_member: None (<<>>), a ChatMemberUpdated that lacks a status
\* (<<s>>), or one with old_chat_member.status and new_chat_member.status
ChatMembers == {<<>>} \cup {<<s>> : s \in {"left"}}
                   \cup {<<old, new>> : old \in Statuses, new \in Statuses}
ChatTypes == {"channel", "group", "supergroup", "private"}
Keys == {"joins", "leaves", "visits"}  \* keys handed to bump_counter in SpecStore

\* ------------------------------------------------------------ date strings
Pad2(n) == <<n \div 10, n % 10>>

\* date.isoformat(): zero-padded month and day (the year is the same for every
\* day of the model and is left out); a string is the sequence of its digits.
isoformat(day) ==
    IF day <= 31 THEN Pad2(1) \o Pad2(day) ELSE Pad2(2) \o Pad2(day - 31)

\* SQLite's BINARY collation of TEXT: memcmp, then the shorter string first.
RECURSIVE TextLess(_, _)
TextLess(a, b) ==
    IF a = <<>> THEN b # <<>>
    ELSE IF b = <<>> THEN FALSE
    ELSE IF Head(a) # Head(b) THEN Head(a) < Head(b)
    ELSE TextLess(Tail(a), Tail(b))

\* ------------------------------------------------------- storage (SQLite)
AllTables == {"daily_stats", "counters"}

\* INSERT OR REPLACE in place of INSERT OR IGNORE
InsertOrReplaceCounter(tbl, k) == {r \in tbl : r[1] # k} \cup {<<k, 0>>}

\* INSERT OR IGNORE INTO counters(key, value) VALUES (k, 0)
InsertOrIgnoreCounter(tbl, k) ==
    IF \E r \in tbl : r[1] = k THEN tbl ELSE tbl \cup {<<k, 0>>}

\* init_db with INSERT OR REPLACE in place of INSERT OR IGNORE
init_db_counters_replace(tbl) ==
    {r \in tbl : r[1] \notin {"joins", "leaves"}} \cup {<<"joins", 0>>, <<"leaves", 0>>}

\* init_db: CREATE TABLE IF NOT EXISTS x2, then the two INSERT OR IGNORE
init_db_counters(tbl) ==
    InsertOrIgnoreCounter(InsertOrIgnoreCounter(tbl, "joins"), "leaves")

\* set_daily_count as a plain insert into a table without the key constraint
set_daily_count_insert(tbl, date_str, count) == tbl \cup {<<date_str, count>>}

\* INSERT OR REPLACE INTO daily_stats(date, member_count): the row that holds
\* the PRIMARY KEY date_str is deleted, then the new row is inserted.
set_daily_count(tbl, date_str, count) ==
    {r \in tbl : r[1] # date_str} \cup {<<date_str, count>>}

\* the row ORDER BY date DESC puts first
MaxRow(tbl) == CHOOSE r \in tbl : \A q \in tbl : q = r \/ TextLess(q[1], r[1])

\* SELECT date, member_count FROM daily_stats ORDER BY date DESC
RECURSIVE OrderByDateDesc(_)
OrderByDateDesc(tbl) ==
    IF tbl = {} THEN <<>>
    ELSE <<MaxRow(tbl)>> \o OrderByDateDesc(tbl \ {MaxRow(tbl)})

Limit(rows, n) == SubSeq(rows, 1, IF Len(rows) < n THEN Len(rows) ELSE n)

Reverse(rows) == [i \in 1..Len(rows) |-> rows[Len(rows) + 1 - i]]

\* get_last_two_days with ORDER BY date ASC
get_last_two_days_asc(tbl) == Limit(Reverse(OrderByDateDesc(tbl)), 2)

\* get_last_two_days: ... ORDER BY date DESC LIMIT 2, fetchall()
get_last_two_days(tbl) == Limit(OrderByDateDesc(tbl), 2)

\* bump_counter as an upsert: a missing key gets a row
bump_counter_upsert(tbl, key, delta) ==
    IF \E r \in tbl : r[1] = key
    THEN {IF r[1] = key THEN <<r[1], r[2] + delta>> ELSE r : r \in tbl}
    ELSE tbl \cup {<<key, delta>>}

\* bump_counter: UPDATE counters SET value = value + delta WHERE key = key
bump_counter(tbl, key, delta) ==
    {IF r[1] = key THEN <<r[1], r[2] + delta>> ELSE r : r \in tbl}

\* read_counters, then c.get(k, 0)
CounterGet(tbl, k) ==
    IF \E r \in tbl : r[1] = k THEN (CHOOSE r \in tbl : r[1] = k)[2] ELSE 0

\* --------------------------------------------------------- configuration
TOKEN == env.token
\* int(os.getenv("ADMIN_ID", "0"))
ADMIN_ID == IF env.admin = <<>> THEN 0 ELSE env.admin[1]
CHANNEL_ID == env.channel

\* the check without ADMIN_ID
ConfigMissing_noAdmin == ~TOKEN \/ CHANNEL_ID = <<>>

\* main, line 178: not TOKEN or not CHANNEL_ID or not ADMIN_ID
ConfigMissing == ~TOKEN \/ CHANNEL_ID = <<>> \/ ADMIN_ID = 0

\* ------------------------------------------------------------- messages
NoDelta == <<>>
NoMsg == <<>>

Abs(x) == IF x < 0 THEN -x ELSE x

\* the sign with zero on the side of the increase
StatsSign_zeroPlus(delta) == IF delta >= 0 THEN "plus" ELSE "minus"

\* stats, line 125
StatsSign(delta) == IF delta > 0 THEN "plus" ELSE IF delta < 0 THEN "minus" ELSE "minus"

\* daily_job, line 165: (delta or 0) of an Optional[int]
DailySign(delta) ==
    LET d == IF delta = NoDelta THEN 0 ELSE delta[1]
    IN  IF d > 0 THEN "plus" ELSE IF d < 0 THEN "minus" ELSE "minus"

\* the "(<sign><abs(delta)> за день)" part of a message, when it is there
DeltaText(sign, delta) ==
    IF delta = NoDelta THEN <<>> ELSE <<sign, Abs(delta[1])>>

\* a message: its recipient (<<>> = reply to the invoking message), its kind
\* and the values its text shows
Msg(to, kind, count, deltaText, ctrs, label) ==
    [to |-> to, kind |-> kind, count |-> count, delta |-> deltaText,
     counters |-> ctrs, label |-> label]

\* what an operation leaves behind
\* (args: the caller of a command, the chat of a notification, the arguments of
\* a storage call; rows, delta: the locals of that name, or the value returned)
Out(op, args, raised, calls, sent, delta, rows) ==
    [op |-> op, args |-> args, raised |-> raised, calls |-> calls, sent |-> sent,
     delta |-> delta, rows |-> rows]

Quiet(op, args) == Out(op, args, FALSE, 0, NoMsg, NoDelta, <<>>)

\* ------------------------------------------------------------- handlers
\* start line 96, stats line 112: the early return
\*   if update.effective_user and update.effective_user.id != ADMIN_ID: return
Ignored(caller) == caller # <<>> /\ caller[1] # ADMIN_ID

\* start, line 101: the chat-kind label
KindLabel(type) ==
    IF type = "channel" THEN "channel"
    ELSE IF type \in {"group", "supergroup"} THEN "group"
    ELSE type

\* the delta without the check that the first row is today's
StatsDelta_anyDate(rows, day) ==
    IF Len(rows) > 1 THEN <<rows[1][2] - rows[2][2]>> ELSE NoDelta

\* stats, lines 118-122
StatsDelta(rows, day) ==
    IF rows # <<>> /\ rows[1][1] = day
    THEN IF Len(rows) > 1 THEN <<rows[1][2] - rows[2][2]>> ELSE NoDelta
    ELSE NoDelta

\* the delta with its operands swapped
DailyDelta_swapped(rows, day) ==
    IF Len(rows) >= 2 /\ rows[1][1] = day
    THEN <<rows[2][2] - rows[1][2]>>
    ELSE NoDelta

\* the delta without the check that the first row is today's
DailyDelta_anyDate(rows, day) ==
    IF Len(rows) >= 2 THEN <<rows[1][2] - rows[2][2]>> ELSE NoDelta

\* daily_job, lines 162-164
DailyDelta(rows, day) ==
    IF Len(rows) >= 2 /\ rows[1][1] = day
    THEN <<rows[1][2] - rows[2][2]>>
    ELSE NoDelta

\* on_chat_member, line 145
IsJoin(old_status, new_status) ==
    old_status \in {"left", "kicked"} /\ new_status \in {"member", "administrator"}

\* the leave test without "kicked"
IsLeave_leftOnly(old_status, new_status) ==
    old_status \in {"member", "administrator"} /\ new_status = "left"

\* on_chat_member, line 147
IsLeave(old_status, new_status) ==
    old_status \in {"member", "administrator"} /\ new_status \in {"left", "kicked"}

\* the two ifs with a read-then-write bump: value = 0 + 1 whatever was stored
Counted_overwrite(tbl, old_status, new_status) ==
    {IF (r[1] = "joins" /\ IsJoin(old_status, new_status))
        \/ (r[1] = "leaves" /\ IsLeave(old_status, new_status))
     THEN <<r[1], 1>> ELSE r : r \in tbl}

\* on_chat_member, lines 145-148: the counters table after the two ifs
Counted(tbl, old_status, new_status) ==
    LET afterJoin == IF IsJoin(old_status, new_status)
                     THEN bump_counter(tbl, "joins", 1) ELSE tbl
    IN  IF IsLeave(old_status, new_status)
        THEN bump_counter(afterJoin, "leaves", 1) ELSE afterJoin

\* ChatMemberHandler(on_chat_member, ChatMemberHandler.CHAT_MEMBER), line 187:
\* which chats' chat_member updates reach on_chat_member (no chat_id filter)
Dispatched(chat) == TRUE

\* daily_job, line 172: chat_id of send_message
ReportRecipient == <<ADMIN_ID>>

StartFails == {"none", "get_chat", "reply_text", "get_chat+reply_text", "reply_text twice"}
StatsFails == {"none", "get_chat", "get_chat_member_count", "get_last_two_days",
               "read_counters", "reply_text", "get_chat+reply_text", "reply_text twice"}
JobFails == {"none", "get_chat", "get_chat_member_count", "set_daily_count",
             "get_last_two_days", "send_message"}

\* no stats call and no daily job in progress
\* stats and daily_job as tasks of one event loop, each standing between two of
\* its statements: the position, the locals read so far, and the snapshot table
\* as it was when the two were started (before)
Idle ==
    [stats |-> "idle", scount |-> 0, srows |-> <<>>, sdelta |-> NoDelta, sctr |-> <<>>,
     job |-> "idle", jcount |-> 0, jrows |-> <<>>, before |-> {}]

\* ---------------------------------------------------------------- Init
Init ==
    /\ env \in [token : BOOLEAN, admin : {<<>>, AdminUser}, channel : {<<>>, MonChat}]
    /\ phase = "down"
    /\ schema = {}
    /\ daily_stats = {}
    /\ counters = {}
    /\ today = 9
    /\ hourPassed = FALSE
    /\ last = Quiet("boot", <<>>)
    /\ seen = <<0, 0>>
    /\ tasks = Idle

\* main, lines 177-196
Main ==
    /\ phase = "down"
    /\ IF ConfigMissing
       THEN /\ phase' = "refused"
            /\ last' = Out("main", <<>>, TRUE, 0, NoMsg, NoDelta, <<>>)
            /\ UNCHANGED <<schema, counters>>
       ELSE /\ phase' = "running"
            /\ schema' = AllTables
            /\ counters' = init_db_counters(counters)
            /\ last' = Quiet("main", <<>>)
    /\ UNCHANGED <<seen, tasks, env, daily_stats, today, hourPassed>>

\* the process is stopped; the SQLite file stays
Stop ==
    /\ phase = "running"
    /\ phase' = "down"
    /\ last' = Quiet("stop", <<>>)
    /\ UNCHANGED <<seen, tasks, env, schema, daily_stats, counters, today, hourPassed>>

\* midnight in TZ
Tick ==
    /\ hourPassed
    /\ today + 1 \in Days
    /\ today' = today + 1
    /\ hourPassed' = FALSE
    /\ last' = Quiet("tick", <<>>)
    /\ UNCHANGED <<seen, tasks, env, phase, schema, daily_stats, counters>>

\* REPORT_HOUR goes by while no process runs: the job of that day is missed
MissHour ==
    /\ phase # "running"
    /\ ~hourPassed
    /\ hourPassed' = TRUE
    /\ last' = Quiet("missed", <<>>)
    /\ UNCHANGED <<seen, tasks, env, phase, schema, daily_stats, counters, today>>

\* start, lines 95-108
StartOut(caller, fail, type) ==
    LET ok  == Msg(<<>>, "start", 0, <<>>, <<>>, KindLabel(type))
        err == Msg(<<>>, "start error", 0, <<>>, <<>>, "")
    IN  IF Ignored(caller) THEN Quiet("start", caller)
        ELSE CASE fail = "none" -> Out("start", caller, FALSE, 2, <<ok>>, NoDelta, <<>>)
               [] fail = "get_chat" -> Out("start", caller, FALSE, 2, <<err>>, NoDelta, <<>>)
               [] fail = "reply_text" -> Out("start", caller, FALSE, 3, <<err>>, NoDelta, <<>>)
               [] fail = "get_chat+reply_text" -> Out("start", caller, TRUE, 2, NoMsg, NoDelta, <<>>)
               [] fail = "reply_text twice" -> Out("start", caller, TRUE, 3, NoMsg, NoDelta, <<>>)

start(caller, fail, type) ==
    /\ phase = "running"
    /\ last' = StartOut(caller, fail, type)
    /\ UNCHANGED <<seen, tasks, env, phase, schema, daily_stats, counters, today, hourPassed>>

\* stats, lines 111-132
StatsOut(caller, fail, count) ==
    LET rows  == get_last_two_days(daily_stats)
        delta == StatsDelta(rows, isoformat(today))
        sign  == IF delta = NoDelta THEN "" ELSE StatsSign(delta[1])
        c     == IF counters # {}
                 THEN <<CounterGet(counters, "joins"), CounterGet(counters, "leaves")>>
                 ELSE <<>>
        ok    == Msg(<<>>, "stats", count, DeltaText(sign, delta), c, "")
        err   == Msg(<<>>, "stats error", 0, <<>>, <<>>, "")
    IN  IF Ignored(caller) THEN Quiet("stats", caller)
        ELSE CASE fail = "none" -> Out("stats", caller, FALSE, 3, <<ok>>, delta, rows)
               [] fail = "get_chat" -> Out("stats", caller, FALSE, 2, <<err>>, NoDelta, <<>>)
               [] fail = "get_chat_member_count" -> Out("stats", caller, FALSE, 3, <<err>>, NoDelta, <<>>)
               [] fail = "get_last_two_days" -> Out("stats", caller, FALSE, 3, <<err>>, NoDelta, <<>>)
               [] fail = "read_counters" -> Out("stats", caller, FALSE, 3, <<err>>, NoDelta, <<>>)
               [] fail = "reply_text" -> Out("stats", caller, FALSE, 4, <<err>>, NoDelta, <<>>)
               [] fail = "get_chat+reply_text" -> Out("stats", caller, TRUE, 2, NoMsg, NoDelta, <<>>)
               [] fail = "reply_text twice" -> Out("stats", caller, TRUE, 4, NoMsg, NoDelta, <<>>)

\* stats that also records the count it fetched as today's snapshot
stats_recording(caller, fail, count) ==
    /\ phase = "running"
    /\ last' = StatsOut(caller, fail, count)
    /\ daily_stats' = IF Ignored(caller) \/ fail \in {"get_chat", "get_chat_member_count",
                                                     "get_chat+reply_text"}
                      THEN daily_stats
                      ELSE set_daily_count(daily_stats, isoformat(today), count)
    /\ UNCHANGED <<seen, tasks, env, phase, schema, counters, today, hourPassed>>

stats(caller, fail, count) ==
    /\ phase = "running"
    /\ last' = StatsOut(caller, fail, count)
    /\ UNCHANGED <<seen, tasks, env, phase, schema, daily_stats, counters, today, hourPassed>>

\* what the transition table of section 4.5 adds to joins and to leaves
TableJoins(old, new) ==
    IF old \in {"left", "kicked"} /\ new \in {"member", "administrator"} THEN 1 ELSE 0

TableLeaves(old, new) ==
    IF old \in {"member", "administrator"} /\ new \in {"left", "kicked"} THEN 1 ELSE 0

\* the exception the body of on_chat_member raises, "" when it raises none.
\* cm = update.chat_member; locked: the SQLite statement of bump_counter fails.
ListenerError(cm, locked) ==
    IF Len(cm) = 1 THEN "AttributeError"
    ELSE IF Len(cm) = 2 /\ locked /\ (IsJoin(cm[1], cm[2]) \/ IsLeave(cm[1], cm[2]))
         THEN "sqlite3.OperationalError"
    ELSE ""

\* a handler that catches the errors of the store only
Caught_storeOnly(exc) == exc = "sqlite3.OperationalError"

\* on_chat_member, lines 139 and 149: try ... except Exception
Caught(exc) == exc \in {"AttributeError", "sqlite3.OperationalError"}

ListenerOut(args, cm, locked) ==
    LET exc == ListenerError(cm, locked)
    IN  Out("on_chat_member", args, exc # "" /\ ~Caught(exc), 0, NoMsg, NoDelta, <<>>)

\* on_chat_member, lines 138-150
Handled(chat, cm, locked) ==
    /\ phase = "running"
    /\ Dispatched(chat)
    /\ counters' = IF Len(cm) = 2 /\ ListenerError(cm, locked) = ""
                   THEN Counted(counters, cm[1], cm[2])
                   ELSE counters
    /\ seen' = IF Len(cm) = 2 /\ ListenerError(cm, locked) = ""
               THEN <<seen[1] + TableJoins(cm[1], cm[2]),
                      seen[2] + TableLeaves(cm[1], cm[2])>>
               ELSE seen
    /\ UNCHANGED <<tasks, env, phase, schema, daily_stats, today, hourPassed>>

on_chat_member(chat, cm, locked) ==
    /\ Handled(chat, cm, locked)
    /\ \A r \in counters' : r[2] <= MaxCounter
    /\ last' = ListenerOut(<<chat>>, cm, locked)

\* the write without the fetch before it: a failed fetch still writes a row
JobStore_unguarded(tbl, fail, day, count) ==
    IF fail = "set_daily_count" THEN tbl ELSE set_daily_count(tbl, isoformat(day), count)

\* the write after the report: a failed send_message leaves no row
JobStore_afterSend(tbl, fail, day, count) ==
    IF fail \in {"get_chat", "get_chat_member_count", "set_daily_count", "send_message"}
    THEN tbl
    ELSE set_daily_count(tbl, isoformat(day), count)

\* the write in two statements: a placeholder row first, the count later
JobStore_placeholder(tbl, fail, day, count) ==
    IF fail \in {"get_chat", "get_chat_member_count", "set_daily_count"}
    THEN tbl
    ELSE set_daily_count(tbl, isoformat(day), 0)

\* daily_job, lines 156-174: the table after line 160
JobStore(tbl, fail, day, count) ==
    IF fail \in {"get_chat", "get_chat_member_count", "set_daily_count"}
    THEN tbl
    ELSE set_daily_count(tbl, isoformat(day), count)

\* (last.args: the step that failed, and the count once it is fetched)
JobOut(fail, count) ==
    LET rows  == get_last_two_days(JobStore(daily_stats, fail, today, count))
        delta == DailyDelta(rows, isoformat(today))
        sign  == DailySign(delta)
        msg   == Msg(ReportRecipient, "daily", count, DeltaText(sign, delta), <<>>, "")
        args  == <<fail, count>>
    IN  CASE fail = "none" -> Out("daily_job", args, FALSE, 3, <<msg>>, delta, rows)
          [] fail = "get_chat" -> Out("daily_job", <<fail>>, FALSE, 1, NoMsg, NoDelta, <<>>)
          [] fail = "get_chat_member_count" -> Out("daily_job", <<fail>>, FALSE, 2, NoMsg, NoDelta, <<>>)
          [] fail = "set_daily_count" -> Out("daily_job", args, FALSE, 2, NoMsg, NoDelta, <<>>)
          [] fail = "get_last_two_days" -> Out("daily_job", args, FALSE, 2, NoMsg, NoDelta, <<>>)
          [] fail = "send_message" -> Out("daily_job", args, FALSE, 3, NoMsg, NoDelta, <<>>)

\* job_queue.run_daily(daily_job, time=REPORT_HOUR), lines 190-194, firing the job
daily_job(fail, count) ==
    /\ phase = "running"
    /\ ~hourPassed
    /\ hourPassed' = TRUE
    /\ daily_stats' = JobStore(daily_stats, fail, today, count)
    /\ last' = JobOut(fail, count)
    /\ UNCHANGED <<seen, tasks, env, phase, schema, counters, today>>

Next ==
    \/ Main
    \/ Stop
    \/ Tick
    \/ MissHour
    \/ \E caller \in Callers, fail \in StartFails, type \in ChatTypes :
          start(caller, fail, type)
    \/ \E caller \in Callers, fail \in StatsFails, count \in Counts :
          stats(caller, fail, count)
    \/ \E chat \in Chats, cm \in ChatMembers, locked \in BOOLEAN :
          on_chat_member(chat, cm, locked)
    \/ \E fail \in JobFails, count \in Counts : daily_job(fail, count)

Spec == Init /\ [][Next]_vars

\* ----------------------------------------------- the storage layer alone
\* A SQLite file nobody has opened yet, and a complete configuration.
InitStore ==
    /\ env = [token |-> TRUE, admin |-> AdminUser, channel |-> MonChat]
    /\ phase = "down"
    /\ schema = {}
    /\ daily_stats = {}
    /\ counters = {}
    /\ today = 9
    /\ hourPassed = FALSE
    /\ last = Quiet("boot", <<>>)
    /\ seen = <<0, 0>>
    /\ tasks = Idle

StoreFrame == UNCHANGED <<seen, tasks, env, phase, today, hourPassed>>

\* sqlite3.OperationalError: no such table
NoSuchTable(op, args) == Out(op, args, TRUE, 0, NoMsg, NoDelta, <<>>)

\* init_db(), lines 37-52
call_init_db ==
    /\ schema' = AllTables
    /\ counters' = init_db_counters(counters)
    /\ last' = Quiet("init_db", <<>>)
    /\ UNCHANGED daily_stats
    /\ StoreFrame

\* set_daily_count(date_str, count), lines 55-57; last.rows: the rows REPLACE deleted
call_set_daily_count(day, count) ==
    LET date_str == isoformat(day)
        args == <<date_str, count>>
    IN  /\ IF "daily_stats" \in schema
           THEN /\ daily_stats' = set_daily_count(daily_stats, date_str, count)
                /\ last' = Out("set_daily_count", args, FALSE, 0, NoMsg, NoDelta,
                               OrderByDateDesc({r \in daily_stats : r[1] = date_str}))
           ELSE /\ last' = NoSuchTable("set_daily_count", args)
                /\ UNCHANGED daily_stats
        /\ UNCHANGED <<schema, counters>>
        /\ StoreFrame

\* get_last_two_days(), lines 60-63
call_get_last_two_days ==
    /\ last' = IF "daily_stats" \in schema
               THEN Out("get_last_two_days", <<>>, FALSE, 0, NoMsg, NoDelta,
                        get_last_two_days(daily_stats))
               ELSE NoSuchTable("get_last_two_days", <<>>)
    /\ UNCHANGED <<schema, daily_stats, counters>>
    /\ StoreFrame

\* bump_counter(key, delta), lines 66-68
call_bump_counter(key, delta) ==
    /\ CounterGet(counters, key) + delta <= MaxCounter
    /\ IF "counters" \in schema
       THEN /\ counters' = bump_counter(counters, key, delta)
            /\ last' = Quiet("bump_counter", <<key, delta>>)
       ELSE /\ last' = NoSuchTable("bump_counter", <<key, delta>>)
            /\ UNCHANGED counters
    /\ UNCHANGED <<schema, daily_stats>>
    /\ StoreFrame

\* read_counters(), lines 71-74: the dict {k: v}
read_counters(tbl) == [k \in {r[1] : r \in tbl} |-> CounterGet(tbl, k)]

call_read_counters ==
    /\ last' = IF "counters" \in schema
               THEN Out("read_counters", <<>>, FALSE, 0, NoMsg, NoDelta,
                        read_counters(counters))
               ELSE NoSuchTable("read_counters", <<>>)
    /\ UNCHANGED <<schema, daily_stats, counters>>
    /\ StoreFrame

\* stats, lines 116-122, on the store as it is and a clock showing `day`
call_stats_delta(day) ==
    /\ "daily_stats" \in schema
    /\ LET rows == get_last_two_days(daily_stats)
       IN  last' = Out("stats delta", <<isoformat(day)>>, FALSE, 0, NoMsg,
                       StatsDelta(rows, isoformat(day)), rows)
    /\ UNCHANGED <<schema, daily_stats, counters>>
    /\ StoreFrame

\* stats lines 116-122 and daily_job lines 161-164 on the same rows and day;
\* last.delta: <<the delta of stats, the delta of daily_job>>
call_both_deltas(day) ==
    /\ "daily_stats" \in schema
    /\ LET rows == get_last_two_days(daily_stats)
       IN  last' = Out("both deltas", <<isoformat(day)>>, FALSE, 0, NoMsg,
                       <<StatsDelta(rows, isoformat(day)),
                         DailyDelta(rows, isoformat(day))>>, rows)
    /\ UNCHANGED <<schema, daily_stats, counters>>
    /\ StoreFrame

NextStore ==
    \/ call_init_db
    \/ \E day \in Days, count \in Counts : call_set_daily_count(day, count)
    \/ call_get_last_two_days
    \/ \E key \in Keys : call_bump_counter(key, 1)
    \/ call_read_counters
    \/ \E day \in Days : call_stats_delta(day)
    \/ \E day \in Days : call_both_deltas(day)

SpecStore == InitStore /\ [][NextStore]_vars

\* ------------------------------------------------------ the listener alone
\* on_chat_member with the whole notification kept in last.args
notify(chat, cm, locked) ==
    /\ Handled(chat, cm, locked)
    /\ \A r \in counters' : r[2] <= MaxNotified
    /\ last' = ListenerOut(<<chat, cm, locked>>, cm, locked)

NextListener ==
    \/ Main
    \/ Stop
    \/ \E chat \in Chats, cm \in ChatMembers, locked \in BOOLEAN :
          notify(chat, cm, locked)

SpecListener == InitStore /\ [][NextListener]_vars

\* ------------------------------------------------------------- SpecConc
\* One stats call of the admin, the daily job of the day and listener
\* notifications, interleaved between any two store statements (each storage
\* function opens its own connection and runs one statement, lines 55-74).
\* The event loop switches tasks at an await only; every switch it can make is
\* among the ones taken here.  No step fails.

\* a snapshot table with at most one row per day, none for today or later
PastTables(day) ==
    {t \in SUBSET {<<isoformat(d), c>> : d \in {e \in Days : e < day}, c \in Counts} :
        \A r \in t, q \in t : r[1] = q[1] => r = q}

\* the notifications of SpecConc: a join, a leave, a promotion (not counted)
ConcMembers == {<<"left", "member">>, <<"member", "kicked">>, <<"member", "administrator">>}

\* the bot running on the third day of Days, before REPORT_HOUR, the store
\* initialized and snapshots of earlier days stored
InitConc ==
    /\ env = [token |-> TRUE, admin |-> AdminUser, channel |-> MonChat]
    /\ phase = "running"
    /\ schema = AllTables
    /\ today = 11
    /\ daily_stats \in PastTables(today)
    /\ counters = init_db_counters({})
    /\ hourPassed = FALSE
    /\ last = Quiet("main", <<>>)
    /\ seen = <<0, 0>>
    /\ tasks = [Idle EXCEPT !.before = daily_stats]

ConcFrame == UNCHANGED <<seen, env, phase, schema, today>>

\* stats, line 115: count = await fetch_member_count(context)
stats_fetch(count) ==
    /\ tasks.stats = "idle"
    /\ tasks' = [tasks EXCEPT !.stats = "fetched", !.scount = count]
    /\ last' = Quiet("stats: fetch_member_count", <<>>)
    /\ UNCHANGED <<daily_stats, counters, hourPassed>>
    /\ ConcFrame

\* stats, lines 116-122: rows = get_last_two_days() and the delta
stats_rows ==
    /\ tasks.stats = "fetched"
    /\ LET rows == get_last_two_days(daily_stats)
       IN  tasks' = [tasks EXCEPT !.stats = "rows", !.srows = rows,
                                  !.sdelta = StatsDelta(rows, isoformat(today))]
    /\ last' = Quiet("stats: get_last_two_days", <<>>)
    /\ UNCHANGED <<daily_stats, counters, hourPassed>>
    /\ ConcFrame

\* stats, line 127: c = read_counters()
stats_counters ==
    /\ tasks.stats = "rows"
    /\ tasks' = [tasks EXCEPT !.stats = "counters",
                              !.sctr = <<CounterGet(counters, "joins"),
                                         CounterGet(counters, "leaves")>>]
    /\ last' = Quiet("stats: read_counters", <<>>)
    /\ UNCHANGED <<daily_stats, counters, hourPassed>>
    /\ ConcFrame

\* stats, lines 123-130: the message and the reply
stats_reply ==
    /\ tasks.stats = "counters"
    /\ tasks' = [tasks EXCEPT !.stats = "done"]
    /\ LET delta == tasks.sdelta
           sign  == IF delta = NoDelta THEN "" ELSE StatsSign(delta[1])
           ok    == Msg(<<>>, "stats", tasks.scount, DeltaText(sign, delta),
                        tasks.sctr, "")
       IN  last' = Out("stats", AdminUser, FALSE, 3, <<ok>>, delta, tasks.srows)
    /\ UNCHANGED <<daily_stats, counters, hourPassed>>
    /\ ConcFrame

\* daily_job, line 159: count = await fetch_member_count(context)
job_fetch(count) ==
    /\ tasks.job = "idle"
    /\ ~hourPassed
    /\ hourPassed' = TRUE
    /\ tasks' = [tasks EXCEPT !.job = "fetched", !.jcount = count]
    /\ last' = Quiet("daily_job: fetch_member_count", <<>>)
    /\ UNCHANGED <<daily_stats, counters>>
    /\ ConcFrame

\* daily_job, line 160: set_daily_count(now.date().isoformat(), count)
job_store ==
    /\ tasks.job = "fetched"
    /\ daily_stats' = JobStore(daily_stats, "none", today, tasks.jcount)
    /\ tasks' = [tasks EXCEPT !.job = "stored"]
    /\ last' = Quiet("daily_job: set_daily_count", <<>>)
    /\ UNCHANGED <<counters, hourPassed>>
    /\ ConcFrame

\* daily_job, line 161: rows = get_last_two_days()
job_rows ==
    /\ tasks.job = "stored"
    /\ tasks' = [tasks EXCEPT !.job = "rows", !.jrows = get_last_two_days(daily_stats)]
    /\ last' = Quiet("daily_job: get_last_two_days", <<>>)
    /\ UNCHANGED <<daily_stats, counters, hourPassed>>
    /\ ConcFrame

\* daily_job, lines 162-172: the delta, the message and send_message
job_send ==
    /\ tasks.job = "rows"
    /\ tasks' = [tasks EXCEPT !.job = "done"]
    /\ LET delta == DailyDelta(tasks.jrows, isoformat(today))
           msg   == Msg(ReportRecipient, "daily", tasks.jcount,
                        DeltaText(DailySign(delta), delta), <<>>, "")
       IN  last' = Out("daily_job", <<"none", tasks.jcount>>, FALSE, 3, <<msg>>,
                       delta, tasks.jrows)
    /\ UNCHANGED <<daily_stats, counters, hourPassed>>
    /\ ConcFrame

\* on_chat_member, lines 138-150, between any two of the steps above
conc_notify(cm) ==
    /\ Handled(MonChat[1], cm, FALSE)
    /\ \A r \in counters' : r[2] <= MaxCounter
    /\ last' = ListenerOut(<<MonChat[1]>>, cm, FALSE)

NextConc ==
    \/ \E count \in Counts : stats_fetch(count)
    \/ stats_rows
    \/ stats_counters
    \/ stats_reply
    \/ \E count \in Counts : job_fetch(count)
    \/ job_store
    \/ job_rows
    \/ job_send
    \/ \E cm \in ConcMembers : conc_notify(cm)

SpecConc == InitConc /\ [][NextConc]_vars

\* ================================================================ claims
\* the calendar day a stored date string stands for
DayOf(date_str) ==
    LET month == date_str[1] * 10 + date_str[2]
        dom   == date_str[3] * 10 + date_str[4]
    IN  IF month = 1 THEN dom ELSE 31 + dom

joins == CounterGet(counters, "joins")
leaves == CounterGet(counters, "leaves")

\* the rows of tbl with the latest calendar day
Latest(tbl) == CHOOSE r \in tbl : \A q \in tbl : DayOf(q[1]) <= DayOf(r[1])

\* ---- C1
\* C1: every membership notification that on_chat_member handles without an
\* exception, with old and new status drawn from {left, kicked, member,
\* administrator, other}, adds 1 to joins and 0 to leaves for (left|kicked) ->
\* (member|administrator), 1 to leaves and 0 to joins for (member|administrator)
\* -> (left|kicked), and nothing to either for every other pair; never both.
C1_TransitionTable ==
    [][(/\ last'.op = "on_chat_member"
        /\ Len(last'.args[2]) = 2
        /\ ~last'.args[3]) =>
          LET old == last'.args[2][1]
              new == last'.args[2][2]
          IN  /\ CounterGet(counters', "joins") - joins = TableJoins(old, new)
              /\ CounterGet(counters', "leaves") - leaves = TableLeaves(old, new)
              /\ ~(CounterGet(counters', "joins") # joins
                   /\ CounterGet(counters', "leaves") # leaves)]_vars

\* a join and a leave have both been counted
C1_Witness ==
    /\ last.op = "on_chat_member"
    /\ last.args[2] = <<"administrator", "kicked">>
    /\ ~last.args[3]
    /\ joins = 1
    /\ leaves = 1

\* ---- C2
\* C2: a start or stats invocation whose caller is not the admin (another user
\* id, or an update without a user) sends no reply, makes no platform call and
\* leaves both stores unchanged.
C2_AdminOnly ==
    [][(last'.op \in {"start", "stats"} /\ last'.args # <<ADMIN_ID>>) =>
          /\ last'.sent = NoMsg
          /\ last'.calls = 0
          /\ UNCHANGED <<daily_stats, counters>>]_vars

\* ---- C3
\* C3: a membership notification of a chat other than the monitored chat
\* changes neither joins nor leaves.
C3_MonitoredChatOnly ==
    [][(last'.op = "on_chat_member" /\ last'.args # CHANNEL_ID) =>
          UNCHANGED counters]_vars

\* ---- C4
\* the snapshot rows dated before `day`
Earlier(tbl, day) == {r \in tbl : DayOf(r[1]) < day}

\* how a delta d is to be shown: the glyph and the magnitude
Shown(d) == <<IF d > 0 THEN "plus" ELSE "minus", IF d >= 0 THEN d ELSE 0 - d>>

\* C4: when the daily job runs on day D, the fetch returns c and no step fails,
\* the snapshot store then holds the row (D, c), exactly one message is sent, to
\* the admin identity and not to the monitored chat, it shows c, and it shows
\* the delta c minus the count of the most recent earlier snapshot when there
\* is an earlier snapshot, and no delta when there is none.
C4_DailyReport ==
    [][\A c \in Counts :
          (last'.op = "daily_job" /\ daily_job("none", c)) =>
              /\ {r \in daily_stats' : r[1] = isoformat(today)} = {<<isoformat(today), c>>}
              /\ Len(last'.sent) = 1
              /\ last'.sent[1].to = <<ADMIN_ID>>
              /\ last'.sent[1].to # CHANNEL_ID
              /\ last'.sent[1].count = c
              /\ IF Earlier(daily_stats, today) = {}
                 THEN last'.sent[1].delta = <<>>
                 ELSE last'.sent[1].delta =
                          Shown(c - Latest(Earlier(daily_stats, today))[2])]_vars

\* the scenario of the spec: 500 fetched after a stored 480, reported as +20,
\* the day before having been missed
C4_Witness ==
    /\ last.op = "daily_job"
    /\ last.sent # NoMsg
    /\ last.sent[1].count = 500
    /\ last.sent[1].delta = <<"plus", 20>>
    /\ Cardinality(daily_stats) = 2
    /\ today = 11

\* ---- C5
\* the delta the rule gives for a snapshot table and a day
RuleDelta(tbl, day) ==
    IF tbl # {} /\ DayOf(Latest(tbl)[1]) = day /\ tbl \ {Latest(tbl)} # {}
    THEN <<Latest(tbl)[2] - Latest(tbl \ {Latest(tbl)})[2]>>
    ELSE NoDelta

\* C5: for every content of the snapshot store and every value of today, the
\* delta stats computes is defined exactly when the most recent snapshot is
\* dated today and a previous snapshot exists, and is then the most recent
\* count minus the previous count.
C5_StatsDeltaRule ==
    last.op = "stats delta" =>
        last.delta = RuleDelta(daily_stats, DayOf(last.args[1]))

\* a delta is computed; and none is, with two rows stored, on another day
C5_Witness ==
    /\ last.op = "stats delta"
    /\ last.delta = <<-20>>
    /\ Cardinality(daily_stats) = 3

\* ---- C6
\* C6: in the stats reply and in the daily report a delta greater than 0 is
\* shown with the increase glyph, a delta of 0 or less with the decrease glyph,
\* next to the absolute value of the delta; without a delta neither is shown.
C6_SignGlyph ==
    \A i \in 1..Len(last.sent) :
        last.sent[i].kind \in {"stats", "daily"} =>
            last.sent[i].delta =
                IF last.delta = NoDelta THEN <<>> ELSE Shown(last.delta[1])

\* a stats reply showing a delta of zero
C6_Witness ==
    /\ last.op = "stats"
    /\ last.sent # NoMsg
    /\ last.sent[1].kind = "stats"
    /\ last.delta = <<0>>
    /\ last.sent[1].delta = <<"minus", 0>>

\* ---- C7
\* C7: set_daily_count overwrites by date: after the call the store holds one
\* row for the date, with the count of the call, the rows of every other date
\* are as before, and the store never holds two rows of one date.
C7_Upsert ==
    [][/\ \A r \in daily_stats', q \in daily_stats' : r[1] = q[1] => r = q
       /\ (last'.op = "set_daily_count" /\ ~last'.raised) =>
              /\ {r \in daily_stats' : r[1] = last'.args[1]} = {last'.args}
              /\ {r \in daily_stats' : r[1] # last'.args[1]}
                     = {r \in daily_stats : r[1] # last'.args[1]}]_vars

\* a second set_daily_count of a date, with another count, next to another date
C7_Witness ==
    /\ last.op = "set_daily_count"
    /\ last.rows # <<>>
    /\ last.rows[1][2] # last.args[2]
    /\ Cardinality(daily_stats) >= 2

\* ---- C8
\* C8: get_last_two_days returns no row on an empty store, the row of a store
\* of one, and two rows of a store of two or more: the row of the latest date
\* first, the row of the latest date before it second.
C8_LastTwo ==
    (last.op = "get_last_two_days" /\ ~last.raised) =>
        LET rows == last.rows
            n == Cardinality(daily_stats)
        IN  /\ Len(rows) = IF n < 2 THEN n ELSE 2
            /\ n >= 1 => rows[1] = Latest(daily_stats)
            /\ n >= 2 => rows[2] = Latest(daily_stats \ {rows[1]})

\* two rows returned of three stored
C8_Witness ==
    /\ last.op = "get_last_two_days"
    /\ Cardinality(daily_stats) = 3
    /\ Len(last.rows) = 2

\* ---- C9
\* C9: no operation (notifications, start, stats, daily job, init_db on a
\* restart) lowers joins or leaves, or deletes a counter row.
C9_CountersMonotonic ==
    [][/\ CounterGet(counters', "joins") >= joins
       /\ CounterGet(counters', "leaves") >= leaves
       /\ {r[1] : r \in counters} \subseteq {r[1] : r \in counters'}]_vars

\* init_db has run again on a store with counted events
C9_Witness == last.op = "main" /\ joins >= 1 /\ leaves >= 1

\* ---- C10
\* C10: once init_db has run, the counter store holds the keys joins and
\* leaves, one row each, and nothing else; bump_counter with another key
\* raises nothing, creates no row and changes no counter.
C10_FixedKeys ==
    [][/\ schema' = AllTables =>
              /\ {r[1] : r \in counters'} = {"joins", "leaves"}
              /\ Cardinality(counters') = 2
       /\ (/\ last'.op = "bump_counter"
           /\ last'.args[1] \notin {"joins", "leaves"}
           /\ schema = AllTables) =>
              /\ ~last'.raised
              /\ counters' = counters]_vars

\* bump_counter called with the key visits on a store with counted events
C10_Witness ==
    /\ last.op = "bump_counter"
    /\ last.args[1] = "visits"
    /\ ~last.raised
    /\ joins >= 1

\* ---- C11
\* C11: init_db on a fresh store yields read_counters() = {joins: 0, leaves: 0}
\* and an empty snapshot store; init_db on a store that is initialized leaves
\* every counter value and every snapshot row as it was.
C11_InitIdempotent ==
    [][last'.op = "init_db" =>
          /\ schema = {} =>
                 /\ read_counters(counters') = [k \in {"joins", "leaves"} |-> 0]
                 /\ daily_stats' = {}
          /\ schema = AllTables =>
                 /\ counters' = counters
                 /\ daily_stats' = daily_stats]_vars

\* init_db called again on a store with a counted event and a snapshot
C11_Witness ==
    /\ last.op = "init_db"
    /\ joins >= 1
    /\ daily_stats # {}

\* ---- C12
\* C12: after any sequence of membership notifications, handled one after the
\* other, joins is the number of join transitions handled without a store
\* failure and leaves the number of leave transitions: no increment is lost
\* and none is applied twice.
C12_CountsMatch == joins = seen[1] /\ leaves = seen[2]

\* left -> member, then member -> left: {joins: 1, leaves: 1}
C12_Witness ==
    /\ last.op = "on_chat_member"
    /\ last.args[2] = <<"member", "left">>
    /\ ~last.args[3]
    /\ seen = <<1, 1>>
    /\ joins = 1
    /\ leaves = 1

\* ---- C13
\* a notification on_chat_member could not evaluate
Failed(args) ==
    Len(args[2]) = 1 \/ (args[3] /\ Len(args[2]) = 2
                         /\ TableJoins(args[2][1], args[2][2])
                            + TableLeaves(args[2][1], args[2][2]) > 0)

C14_CommandsNeverRaise ==
    [][(last'.op \in {"start", "stats"} /\ last'.args = <<ADMIN_ID>>) =>
          /\ ~last'.raised
          /\ UNCHANGED <<daily_stats, counters>>
          /\ \A fail \in {"get_chat", "get_chat_member_count",
                          "get_last_two_days", "read_counters"} :
                 (\/ \E type \in ChatTypes :
                        fail \in StartFails /\ start(last'.args, fail, type)
                  \/ \E count \in Counts : stats(last'.args, fail, count)) =>
                     /\ Len(last'.sent) = 1
                     /\ last'.sent[1].kind \in {"start error", "stats error"}]_vars

\* ---- C15
\* C15: when the fetch of the daily job fails on day D the job raises nothing,
\* writes no snapshot and sends no message, and does not run again that day;
\* once the report hour of a day is over no operation writes a snapshot that
\* day, and a snapshot row is only ever written for the current day.
C15_NoRetryNoBackfill ==
    [][/\ (/\ last'.op = "daily_job"
           /\ last'.args[1] \in {"get_chat", "get_chat_member_count"}) =>
              /\ ~last'.raised
              /\ daily_stats' = daily_stats
              /\ last'.sent = NoMsg
              /\ hourPassed'
       /\ (hourPassed /\ today' = today) => daily_stats' = daily_stats
       /\ \A r \in daily_stats' \ daily_stats : DayOf(r[1]) = today]_vars

\* the fetch failed on the 10th: no row of the 10th, the row of the 9th is there
C15_Witness ==
    /\ last.op = "daily_job"
    /\ last.args = <<"get_chat_member_count">>
    /\ today = 10
    /\ hourPassed
    /\ {DayOf(r[1]) : r \in daily_stats} = {9}

\* ---- C16
\* C16: snapshot rows are created or overwritten by the daily job only and no
\* date is ever deleted; counter values are changed by the listener only; so
\* start and stats leave both stores unchanged, on_chat_member leaves the
\* snapshots unchanged and daily_job leaves the counters unchanged.
C16_SingleWriter ==
    [][/\ daily_stats' # daily_stats => last'.op = "daily_job"
       /\ {r[1] : r \in daily_stats} \subseteq {r[1] : r \in daily_stats'}
       /\ (CounterGet(counters', "joins") # joins
           \/ CounterGet(counters', "leaves") # leaves) => last'.op = "on_chat_member"
       /\ last'.op \in {"start", "stats"} => UNCHANGED <<daily_stats, counters>>
       /\ last'.op = "on_chat_member" => UNCHANGED daily_stats
       /\ last'.op = "daily_job" => UNCHANGED counters]_vars

\* a stats reply on a store with a snapshot and counted events
C16_Witness ==
    /\ last.op = "stats"
    /\ last.sent # NoMsg
    /\ last.sent[1].kind = "stats"
    /\ daily_stats # {}
    /\ joins >= 1
    /\ leaves >= 1

\* ---- C18
\* C18: with the bot token, the monitored chat or the admin identity missing,
\* main ends with a fatal error: the store is never initialized, the bot never
\* runs, and no command, notification or job is ever processed.
C18_RefusesToStart ==
    (~env.token \/ env.channel = <<>> \/ env.admin = <<>>) =>
        /\ phase \in {"down", "refused"}
        /\ schema = {}
        /\ daily_stats = {}
        /\ counters = {}
        /\ last.op \in {"boot", "main", "tick", "missed"}
        /\ last.op = "main" => (last.raised /\ phase = "refused")

\* main has refused to start for want of the admin identity alone
C18_Witness ==
    /\ phase = "refused"
    /\ last.op = "main"
    /\ env.token
    /\ env.channel # <<>>
    /\ env.admin = <<>>

\* ---- C19
\* C19: on the same last-two rows and the same today, the delta of daily_job
\* is defined exactly when the delta of stats is, and the two are equal.
C19_DeltasAgree ==
    last.op = "both deltas" => last.delta[1] = last.delta[2]

\* both define a delta; the store holds a row of another day as well
C19_Witness ==
    /\ last.op = "both deltas"
    /\ last.delta = <<<<20>>, <<20>>>>
    /\ Cardinality(daily_stats) = 3

\* ---- C20
\* C20: when the fetch gives c on day D and sending the report fails, the job
\* raises nothing and the row (D, c) is in the store; rows of earlier days are
\* never changed, and a later report takes its delta from the most recent
\* earlier row.
C20_SnapshotSurvivesSendFailure ==
    [][/\ (last'.op = "daily_job" /\ last'.args[1] = "send_message") =>
              /\ ~last'.raised
              /\ last'.sent = NoMsg
              /\ {r \in daily_stats' : r[1] = isoformat(today)}
                     = {<<isoformat(today), last'.args[2]>>}
       /\ \A r \in daily_stats : DayOf(r[1]) < today => r \in daily_stats'
       /\ (/\ last'.op = "daily_job"
           /\ last'.args[1] = "none"
           /\ Earlier(daily_stats, today) # {}) =>
              last'.delta = <<last'.args[2]
                              - Latest(Earlier(daily_stats, today))[2]>>]_vars

\* the report could not be sent; the row of the day is stored next to an older one
C20_Witness ==
    /\ last.op = "daily_job"
    /\ last.args = <<"send_message", 500>>
    /\ <<isoformat(today), 500>> \in daily_stats
    /\ Cardinality(daily_stats) = 2

\* ---- C17
\* the snapshot table once the job has written count for day into tbl
Upserted(tbl, day, count) ==
    {r \in tbl : DayOf(r[1]) # day} \cup {<<isoformat(day), count>>}

\* the deltas a stats call may show: the one of the table before the job's
\* upsert and, once the upsert is done, the one of the table after it
AllowedDeltas ==
    {RuleDelta(tasks.before, today)} \cup
    (IF tasks.job \in {"stored", "rows", "done"}
     THEN {RuleDelta(Upserted(tasks.before, today, tasks.jcount), today)}
     ELSE {})

\* C17: with a stats call, notifications and the daily job interleaved between
\* store statements, the snapshot store keeps one row per date, the counter
\* store keeps exactly its two keys with one row each, no counter decreases,
\* and the delta stats computes and replies with is the delta of the snapshot
\* store before the job's upsert or of the store after it.
C17_InterleavingSafe ==
    [][/\ \A r \in daily_stats', q \in daily_stats' : r[1] = q[1] => r = q
       /\ {r[1] : r \in counters'} = {"joins", "leaves"}
       /\ Cardinality(counters') = 2
       /\ CounterGet(counters', "joins") >= joins
       /\ CounterGet(counters', "leaves") >= leaves
       /\ tasks'.stats \in {"rows", "counters", "done"} =>
              tasks'.sdelta \in AllowedDeltas'
       /\ last'.op = "stats" =>
              /\ last'.delta \in AllowedDeltas'
              /\ last'.sent[1].delta =
                     IF last'.delta = NoDelta THEN <<>> ELSE Shown(last'.delta[1])]_vars

\* stats read the snapshots after the job's upsert and before the job read them
\* itself, a notification was counted in between, and stats replied the delta
\* of the store after the upsert, which the store before it did not define
C17_Witness ==
    /\ last.op = "stats"
    /\ tasks.job = "stored"
    /\ last.delta # NoDelta
    /\ last.delta # RuleDelta(tasks.before, today)
    /\ last.delta = RuleDelta(daily_stats, today)
    /\ last.sent[1].counters = <<1, 0>>

====
